---- MODULE Spec2Model ----
(***************************************************************************)
(* git-sync: the sync engine (SyncOption.sync, addWorktreeAndSwap,         *)
(* updateSymlink) and the poll driver (main), as a state machine over the  *)
(* on-disk state under --root, the remote repository, and the position of  *)
(* the single process in its code.  One action is one external command or  *)
(* one filesystem call of the source, so that every intermediate on-disk   *)
(* state a concurrent reader (or a kill) can meet is a state of the model. *)
(* History truncation (--depth) is not modelled: Depth = 0.                *)
(***************************************************************************)
EXTENDS Integers, Sequences, FiniteSets, TLC

\* ---------------------------------------------------------------- bounds
\* Commits of the remote's linear history are numbered 1..MaxCommits.
MaxCommits == 3
\* The failure budgets tried: MaxSyncFailures \in 0..MaxBudget.
MaxBudget == 2

\* ---------------------------------------------------------------- values
\* "No value": an absent symlink, an empty currentDir, a failed resolution.
None == 0 - 1
\* The empty string as a hash ("" from an ls-remote with no output).
Empty == Len(<<>>)

\* The values tried for --change-permissions: unset, and a mode.
ChmodValues == {0, 644}

Commits == 1..MaxCommits
\* A directory rev-<hash> is named by its hash: a commit, or Empty ("rev-").
DirKeys == 0..MaxCommits

Hex == <<"a", "b", "c", "d", "e", "f">>
\* The hash of commit i as a string; "" for Empty.
HashStr(i) ==
  IF i = Empty THEN <<>>
  ELSE <<Hex[((i - 1) % 6) + 1], Hex[(((i - 1) \div 6) % 6) + 1]>>

HEADStr == <<"H", "E", "A", "D">>
TagStr == <<"v", "1">>
\* The revision specifiers tried: the default, a tag name, a full hash and an
\* abbreviated hash.
RevSpecs == {HEADStr, TagStr, HashStr(1), <<"a">>}

\* strings.HasPrefix(s, prefix)
HasPrefix(s, prefix) ==
  /\ Len(prefix) <= Len(s)
  /\ \A k \in 1..Len(prefix) : s[k] = prefix[k]

\* Stages of a directory rev-<hash>.  "partial" is a directory that exists,
\* is not empty and is not a complete checkout: what an interrupted
\* 'git worktree add' or a failed os.RemoveAll leaves behind.
Stages == {"absent", "partial", "added", "gitdir", "reset", "chmod"}

VARIABLES
  \* SyncOption (set once by setupFlags)
  Rev, MaxSyncFailures, OneTime, Chmod,
  \* the remote repository
  remoteHead,   \* refs/heads/<Branch> on the remote
  remoteTag,    \* what refs/tags/v1^{} is on the remote; Empty: no such tag
  \* the disk under Root
  cloned,       \* Root/.git exists
  localBranch,  \* refs/heads/<Branch> of the clone (HEAD of Root)
  originBranch, \* refs/remotes/origin/<Branch>
  localTag,     \* refs/tags/v1 of the clone; Empty: no such tag
  wt,           \* DirKeys -> Stages: the directories Root/rev-<hash>
  link,         \* the target of Root/<Dest>, or None
  tmpLink,      \* the target of Root/tmp-link, or None
  \* the process
  pc, initialSync, failCount, exitCode,
  hash,         \* sync: hash
  local,        \* getRevs: local
  currentDir,   \* updateSymlink: currentDir
  err,          \* what the last sync() returned: "nil" or the failed step
  \* history
  outcome,      \* what the last sync() logged
  published,    \* some 'mv -T tmp-link <Dest>' has succeeded on this disk
  linkAtCall,   \* link when the running sync() was invoked
  mutated,      \* the running sync() has changed the disk
  fault,        \* the running sync() met a failure of its environment (a
                \* command or system call that failed or was interrupted)
  remoteChanged,\* the remote changed since the last sync() was invoked
  quiet,        \* the previous sync() of this process published a worktree
                \* and returned nil, and the remote has not changed since
                \* that sync() was invoked
  allOk         \* every sync() run over this Root so far returned nil, and
                \* no process was killed inside a sync()

config == <<Rev, MaxSyncFailures, OneTime, Chmod>>
remote == <<remoteHead, remoteTag>>
repo == <<cloned, localBranch, originBranch, localTag>>
disk == <<cloned, localBranch, originBranch, localTag, wt, link, tmpLink>>
driver == <<initialSync, failCount, exitCode>>
locals == <<hash, local, currentDir>>
vars == <<Rev, MaxSyncFailures, OneTime, Chmod, remoteHead, remoteTag,
          cloned, localBranch, originBranch, localTag, wt, link, tmpLink,
          pc, initialSync, failCount, exitCode, hash, local, currentDir,
          err, outcome, published, linkAtCall, mutated, fault,
          remoteChanged, quiet, allOk>>

\* ------------------------------------------------------------ git, as used
\* Root does not exist or is an empty directory: what 'git clone' needs.
RootEmpty ==
  /\ ~cloned
  /\ \A d \in DirKeys : wt[d] = "absent"
  /\ link = None
  /\ tmpLink = None

\* The commits Root resolves 'rev' to by an abbreviated or full hash.
HashMatches(rev) ==
  {i \in Commits : i <= originBranch /\ Len(rev) > 0 /\ HasPrefix(HashStr(i), rev)}

\* 'git rev-list -n1 rev' run in Root: the commit, or None when git fails.
RevList(rev) ==
  IF ~cloned THEN None
  ELSE IF rev = HEADStr THEN localBranch
  ELSE IF rev = TagStr THEN (IF localTag # Empty THEN localTag ELSE None)
  ELSE IF Cardinality(HashMatches(rev)) = 1
       THEN CHOOSE i \in HashMatches(rev) : TRUE
       ELSE None

\* 'git ls-remote -q origin ref' and parts[0] of its output: the hash the
\* remote has for ref, or "" when the remote lists nothing (exit status 0).
RemoteHashForRef(isHead) ==
  IF isHead THEN remoteHead
  ELSE IF Rev = TagStr THEN remoteTag
  ELSE Empty

\* A worktree is fully built: every step of addWorktreeAndSwap before
\* updateSymlink has succeeded on it.
FullyBuilt(d) ==
  \/ wt[d] = "chmod"
  \/ wt[d] = "reset" /\ Chmod = 0

Exists(d) == wt[d] # "absent"
\* ------------------------------------------------------------------- Init
\* A fresh process over an empty Root, for every configuration tried.
Init ==
  /\ Rev \in RevSpecs
  /\ MaxSyncFailures \in 0..MaxBudget
  /\ OneTime \in BOOLEAN
  /\ Chmod \in ChmodValues
  /\ remoteHead = 1
  /\ remoteTag \in (IF Rev = TagStr THEN {Empty, 1} ELSE {Empty})
  /\ cloned = FALSE
  /\ localBranch = Empty
  /\ originBranch = Empty
  /\ localTag = Empty
  /\ wt = [d \in DirKeys |-> "absent"]
  /\ link = None
  /\ tmpLink = None
  /\ pc = "sync"
  /\ initialSync = TRUE
  /\ failCount = 0
  /\ exitCode = None
  /\ hash = Empty
  /\ local = Empty
  /\ currentDir = None
  /\ err = "none"
  /\ outcome = "none"
  /\ published = FALSE
  /\ linkAtCall = None
  /\ mutated = FALSE
  /\ fault = FALSE
  /\ remoteChanged = FALSE
  /\ quiet = FALSE
  /\ allOk = TRUE

\* sync() returns e, having logged o.
Return(e, o) ==
  /\ pc' = "ret"
  /\ err' = e
  /\ outcome' = o
  /\ hash' = Empty
  /\ local' = Empty
  /\ currentDir' = None
  /\ allOk' = (allOk /\ e = "nil")

\* sync() goes on to step p.
Goto(p) ==
  /\ pc' = p
  /\ UNCHANGED <<err, outcome, allOk>>

\* ------------------------------------------------------------------ sync
\* sync(): os.Stat(path.Join(o.Repo, o.Dest, ".git")) and the switch on its
\* result.  The path is under Repo, not under Root, so nothing this program
\* writes decides what Stat finds there.
SyncStat ==
  /\ pc = "sync"
  /\ linkAtCall' = link
  /\ remoteChanged' = FALSE
  /\ \E st \in {"notexist", "exists", "error"} :
       /\ fault' = (st = "error")
       /\ allOk' = (allOk /\ st # "error")
       /\ CASE st = "notexist" -> pc' = "clone" /\ err' = "running"
            [] st = "exists" -> pc' = "getRevs" /\ err' = "running"
            [] st = "error" -> pc' = "ret" /\ err' = "stat"
       /\ outcome' = "none"
  /\ UNCHANGED <<config, remote, disk, driver, locals, published, mutated,
                 quiet>>

\* cloneRepo(): 'git clone --no-checkout -b Branch Repo Root'.  git refuses
\* a destination that exists and is not an empty directory.
CloneRepo ==
  /\ pc = "clone"
  /\ \E ok \in BOOLEAN : fault' = ~ok /\
       IF ok /\ RootEmpty
       THEN /\ cloned' = TRUE
            /\ localBranch' = remoteHead
            /\ originBranch' = remoteHead
            /\ localTag' = remoteTag
            /\ mutated' = TRUE
            /\ Goto("hashForRev")
            /\ UNCHANGED locals
       ELSE /\ Return("clone", "none")
            /\ UNCHANGED <<repo, mutated>>
  /\ UNCHANGED <<config, remote, wt, link, tmpLink, driver, published,
                 linkAtCall, remoteChanged, quiet>>

\* sync(), after the clone: hash, err = o.hashForRev(o.Rev).
HashForRev ==
  /\ pc = "hashForRev"
  /\ \E ok \in BOOLEAN : fault' = ~ok /\
       IF ok /\ RevList(Rev) # None
       THEN /\ hash' = RevList(Rev)
            /\ Goto("fetch")
            /\ UNCHANGED <<local, currentDir>>
       ELSE Return("hashForRev", "none")
  /\ UNCHANGED <<config, remote, disk, driver, published, linkAtCall,
                 mutated, remoteChanged, quiet>>

\* getRevs(): local, err := o.hashForRev(rev).
GetRevsLocal ==
  /\ pc = "getRevs"
  /\ \E ok \in BOOLEAN : fault' = ~ok /\
       IF ok /\ RevList(Rev) # None
       THEN /\ local' = RevList(Rev)
            /\ Goto("lsremote")
            /\ UNCHANGED <<hash, currentDir>>
       ELSE Return("getRevs", "none")
  /\ UNCHANGED <<config, remote, disk, driver, published, linkAtCall,
                 mutated, remoteChanged, quiet>>

\* getRevs(): the ref is the branch when Rev is "HEAD", the dereferenced tag
\* otherwise; remoteHashForRef; then sync()'s comparison local != remote.
GetRevsRemote ==
  /\ pc = "lsremote"
  /\ \E ok \in BOOLEAN : fault' = ~ok /\
       IF ~ok THEN Return("lsremote", "none")
       ELSE LET remoteHash == RemoteHashForRef(Rev = HEADStr) IN
            IF HashStr(local) # HashStr(remoteHash)
            THEN /\ hash' = remoteHash
                 /\ pc' = "fetch"
                 /\ outcome' = "update required"
                 /\ UNCHANGED <<err, local, currentDir, allOk>>
            ELSE Return("nil", "no update required")
  /\ UNCHANGED <<config, remote, disk, driver, published, linkAtCall,
                 mutated, remoteChanged, quiet>>

\* ---------------------------------------------------- addWorktreeAndSwap
\* Fetch without its error check: the worktree is added after a failed fetch.
FetchUnchecked ==
  /\ pc = "fetch"
  /\ \E ok \in BOOLEAN : fault' = ~ok /\
       IF ok
       THEN /\ originBranch' = remoteHead
            /\ localTag' = (IF remoteTag # Empty THEN remoteTag ELSE localTag)
       ELSE UNCHANGED <<originBranch, localTag>>
  /\ mutated' = TRUE
  /\ Goto("wtadd")
  /\ UNCHANGED <<config, remote, cloned, localBranch, wt, link, tmpLink,
                 driver, locals, published, linkAtCall, remoteChanged, quiet>>

\* 'git fetch --tags origin Branch'.
Fetch ==
  /\ pc = "fetch"
  /\ \E ok \in BOOLEAN : fault' = ~ok /\
       IF ok
       THEN /\ originBranch' = remoteHead
            /\ localTag' = (IF remoteTag # Empty THEN remoteTag ELSE localTag)
            /\ mutated' = TRUE
            /\ Goto("wtadd")
            /\ UNCHANGED locals
       ELSE /\ Return("fetch", outcome)
            /\ UNCHANGED <<originBranch, localTag, mutated>>
  /\ UNCHANGED <<config, remote, cloned, localBranch, wt, link, tmpLink,
                 driver, published, linkAtCall, remoteChanged, quiet>>

\* worktreePath := path.Join(o.Root, "rev-"+hash)
WorktreePath == hash

\* The disk when the build of worktreePath is given up half-way: the
\* directory stays, incomplete.
Abandoned == [wt EXCEPT ![WorktreePath] = "partial"]

\* WorktreeAdd that takes over a directory that exists (as with --force
\* after clearing it) instead of refusing it.
WorktreeAddForce ==
  /\ pc = "wtadd"
  /\ \E res \in {"ok", "failed", "interrupted"} : fault' = (res # "ok") /\
       IF res = "ok"
       THEN /\ wt' = [wt EXCEPT ![WorktreePath] = "added"]
            /\ mutated' = TRUE
            /\ Goto("gitdir")
            /\ UNCHANGED locals
       ELSE IF res = "interrupted"
       THEN /\ wt' = [wt EXCEPT ![WorktreePath] = "partial"]
            /\ mutated' = TRUE
            /\ Return("wtadd", outcome)
       ELSE /\ Return("wtadd", outcome)
            /\ UNCHANGED <<wt, mutated>>
  /\ UNCHANGED <<config, remote, repo, link, tmpLink, driver, published,
                 linkAtCall, remoteChanged, quiet>>

\* 'git worktree add worktreePath origin/Branch'.  git refuses a path that
\* exists and is not an empty directory; a run that fails or is interrupted
\* leaves nothing or an incomplete directory.
WorktreeAdd ==
  /\ pc = "wtadd"
  /\ \E res \in {"ok", "failed", "interrupted"} : fault' = (res # "ok") /\
       IF res = "ok" /\ ~Exists(WorktreePath)
       THEN /\ wt' = [wt EXCEPT ![WorktreePath] = "added"]
            /\ mutated' = TRUE
            /\ Goto("gitdir")
            /\ UNCHANGED locals
       ELSE IF res = "interrupted" /\ ~Exists(WorktreePath)
       THEN /\ wt' = [wt EXCEPT ![WorktreePath] = "partial"]
            /\ mutated' = TRUE
            /\ Return("wtadd", outcome)
       ELSE /\ Return("wtadd", outcome)
            /\ UNCHANGED <<wt, mutated>>
  /\ UNCHANGED <<config, remote, repo, link, tmpLink, driver, published,
                 linkAtCall, remoteChanged, quiet>>

\* ioutil.WriteFile(worktreePath/.git, "gitdir: ../.git/worktrees/rev-<hash>")
GitDirRewrite ==
  /\ pc = "gitdir"
  /\ \E ok \in BOOLEAN : fault' = ~ok /\
       IF ok
       THEN /\ wt' = [wt EXCEPT ![WorktreePath] = "gitdir"]
            /\ Goto("reset")
            /\ UNCHANGED locals
       ELSE /\ Return("gitdir", outcome)
            /\ wt' = Abandoned
  /\ mutated' = TRUE
  /\ UNCHANGED <<config, remote, repo, link, tmpLink, driver, published,
                 linkAtCall, remoteChanged, quiet>>

\* ResetHard without its error check: the build goes on after a failed reset.
ResetHardUnchecked ==
  /\ pc = "reset"
  /\ \E ok \in BOOLEAN : fault' = ~ok /\
       IF ok /\ hash # Empty /\ hash <= originBranch
       THEN wt' = [wt EXCEPT ![hash] = "reset"]
       ELSE wt' = [wt EXCEPT ![hash] = "partial"]
  /\ pc' = (IF Chmod # 0 THEN "chmod" ELSE "eval")
  /\ mutated' = TRUE
  /\ UNCHANGED <<config, remote, repo, link, tmpLink, driver, locals, err,
                 outcome, published, linkAtCall, remoteChanged, quiet, allOk>>

\* AfterReset without the chmod: the worktree is handed over as reset.
AfterResetNoChmod == "eval"

\* The step after a successful reset: chmod when a mode is configured.
AfterReset == IF Chmod # 0 THEN "chmod" ELSE "eval"

\* 'git reset --hard hash' in the worktree.  git needs hash to name a commit
\* the clone holds; "" names none.
ResetHard ==
  /\ pc = "reset"
  /\ \E ok \in BOOLEAN : fault' = ~ok /\
       IF ok /\ hash # Empty /\ hash <= originBranch
       THEN /\ wt' = [wt EXCEPT ![WorktreePath] = "reset"]
            /\ Goto(AfterReset)
            /\ UNCHANGED locals
       ELSE /\ Return("reset", outcome)
            /\ wt' = Abandoned
  /\ mutated' = TRUE
  /\ UNCHANGED <<config, remote, repo, link, tmpLink, driver, published,
                 linkAtCall, remoteChanged, quiet>>

\* 'chmod -R Chmod worktreePath', only when o.Chmod != 0.
ChmodTree ==
  /\ pc = "chmod"
  /\ \E ok \in BOOLEAN : fault' = ~ok /\
       IF ok
       THEN /\ wt' = [wt EXCEPT ![WorktreePath] = "chmod"]
            /\ Goto("eval")
            /\ UNCHANGED locals
       ELSE /\ Return("chmod", outcome)
            /\ wt' = Abandoned
  /\ mutated' = TRUE
  /\ UNCHANGED <<config, remote, repo, link, tmpLink, driver, published,
                 linkAtCall, remoteChanged, quiet>>

\* ----------------------------------------------------------- updateSymlink
\* EvalSymlinks with every error taken for IsNotExist: updateSymlink goes on
\* without a previous directory.
EvalSymlinksUnchecked ==
  /\ pc = "eval"
  /\ \E ok \in BOOLEAN : fault' = ~ok /\
       currentDir' = (IF ok /\ link # None /\ Exists(link) THEN link ELSE None)
  /\ Goto("ln")
  /\ UNCHANGED <<hash, local>>
  /\ UNCHANGED <<config, remote, disk, driver, published, linkAtCall,
                 mutated, remoteChanged, quiet>>

\* filepath.EvalSymlinks(Root/Dest): the directory the link resolves to; ""
\* with an IsNotExist error when the link or its target is absent, which
\* updateSymlink tolerates; any other error is returned.
EvalSymlinks ==
  /\ pc = "eval"
  /\ \E ok \in BOOLEAN : fault' = ~ok /\
       IF ~ok THEN Return("eval", outcome)
       ELSE /\ currentDir' = (IF link # None /\ Exists(link) THEN link ELSE None)
            /\ Goto("ln")
            /\ UNCHANGED <<hash, local>>
  /\ UNCHANGED <<config, remote, disk, driver, published, linkAtCall,
                 mutated, remoteChanged, quiet>>

\* LnTmpLink as 'ln -s' without -n and -f: over a tmp-link that exists the
\* new link is made inside the directory it references, and tmp-link stays.
LnTmpLinkNoForce ==
  /\ pc = "ln"
  /\ \E ok \in BOOLEAN : fault' = ~ok /\
       IF ok
       THEN /\ tmpLink' = (IF tmpLink # None THEN tmpLink ELSE WorktreePath)
            /\ mutated' = TRUE
            /\ Goto("mv")
            /\ UNCHANGED locals
       ELSE /\ Return("ln", outcome)
            /\ UNCHANGED <<tmpLink, mutated>>
  /\ UNCHANGED <<config, remote, repo, wt, link, driver, published,
                 linkAtCall, remoteChanged, quiet>>

\* 'ln -snf rev-<hash> tmp-link' in Root: the name is fixed, and a tmp-link
\* that exists is replaced.
LnTmpLink ==
  /\ pc = "ln"
  /\ \E ok \in BOOLEAN : fault' = ~ok /\
       IF ok
       THEN /\ tmpLink' = WorktreePath
            /\ mutated' = TRUE
            /\ Goto("mv")
            /\ UNCHANGED locals
       ELSE /\ Return("ln", outcome)
            /\ UNCHANGED <<tmpLink, mutated>>
  /\ UNCHANGED <<config, remote, repo, wt, link, driver, published,
                 linkAtCall, remoteChanged, quiet>>

\* MvTmpLink without its error check: the cleanup runs after a failed rename.
MvTmpLinkUnchecked ==
  /\ pc = "mv"
  /\ \E ok \in BOOLEAN : fault' = ~ok /\
       IF ok /\ tmpLink # None
       THEN /\ link' = tmpLink
            /\ tmpLink' = None
            /\ published' = TRUE
       ELSE UNCHANGED <<link, tmpLink, published>>
  /\ mutated' = TRUE
  /\ IF currentDir # None
     THEN pc' = "rm" /\ UNCHANGED <<err, outcome, locals, allOk>>
     ELSE Return("nil", outcome)
  /\ UNCHANGED <<config, remote, repo, wt, driver, linkAtCall,
                 remoteChanged, quiet>>

\* MvTmpLink as an unlink followed by a rename: a failure leaves no link.
MvTmpLinkByRemove ==
  /\ pc = "mv"
  /\ \E ok \in BOOLEAN : fault' = ~ok /\
       IF ok /\ tmpLink # None
       THEN /\ link' = tmpLink
            /\ tmpLink' = None
            /\ published' = TRUE
            /\ IF currentDir # None
               THEN pc' = "rm" /\ UNCHANGED <<err, outcome, locals, allOk>>
               ELSE Return("nil", outcome)
       ELSE /\ link' = None
            /\ Return("mv", outcome)
            /\ UNCHANGED <<tmpLink, published>>
  /\ mutated' = TRUE
  /\ UNCHANGED <<config, remote, repo, wt, driver, linkAtCall,
                 remoteChanged, quiet>>

\* AfterRename without the cleanup: updateSymlink returns after the rename.
AfterRenameNoCleanup == "done"

\* The step after the rename: the cleanup, if len(currentDir) > 0.
AfterRename == IF currentDir # None THEN "rm" ELSE "done"

\* 'mv -T tmp-link Dest' in Root: one rename(2).
MvTmpLink ==
  /\ pc = "mv"
  /\ \E ok \in BOOLEAN : fault' = ~ok /\
       IF ok /\ tmpLink # None
       THEN /\ link' = tmpLink
            /\ tmpLink' = None
            /\ published' = TRUE
            /\ mutated' = TRUE
            /\ IF AfterRename = "done"
               THEN Return("nil", outcome)
               ELSE Goto(AfterRename) /\ UNCHANGED locals
       ELSE /\ Return("mv", outcome)
            /\ UNCHANGED <<link, tmpLink, published, mutated>>
  /\ UNCHANGED <<config, remote, repo, wt, driver, linkAtCall,
                 remoteChanged, quiet>>

\* RemoveTarget taking the new directory for the old one.
RemoveTargetNew == hash

\* RemoveTarget read from the link after the rename instead of before it.
RemoveTargetLink == link

\* The directory the cleanup removes.
RemoveTarget == currentDir

\* os.RemoveAll(currentDir); an error is returned.  A failed removal leaves
\* the directory whole or partly removed.
RemoveOld ==
  /\ pc = "rm"
  /\ \E res \in {"ok", "failed", "interrupted"} :
       /\ fault' = (res # "ok")
       /\ CASE res = "ok" ->
              /\ wt' = [wt EXCEPT ![RemoveTarget] = "absent"]
              /\ mutated' = TRUE
              /\ Goto("prune")
              /\ UNCHANGED locals
         [] res = "interrupted" ->
              /\ wt' = [wt EXCEPT ![RemoveTarget] = "partial"]
              /\ mutated' = TRUE
              /\ Return("rm", outcome)
         [] res = "failed" ->
              /\ Return("rm", outcome)
              /\ UNCHANGED <<wt, mutated>>
  /\ UNCHANGED <<config, remote, repo, link, tmpLink, driver, published,
                 linkAtCall, remoteChanged, quiet>>

\* PruneError with the error dropped.
PruneErrorSwallowed == "nil"

\* What updateSymlink returns when 'git worktree prune' fails.
PruneError == "prune"

\* 'git worktree prune' in Root; an error is returned.
Prune ==
  /\ pc = "prune"
  /\ \E ok \in BOOLEAN : fault' = ~ok /\
       IF ok THEN Return("nil", outcome) ELSE Return(PruneError, outcome)
  /\ UNCHANGED <<config, remote, disk, driver, published, linkAtCall,
                 mutated, remoteChanged, quiet>>

\* -------------------------------------------------------------------- main
history == <<err, outcome, linkAtCall, mutated, fault, quiet>>

\* ShouldExit without the first-sync case.
ShouldExitBudgetOnly == failCount >= MaxSyncFailures

\* ShouldExit with > for >=.
ShouldExitOffByOne == initialSync \/ failCount > MaxSyncFailures

\* main: initialSync || failCount >= cliOpts.MaxSyncFailures
ShouldExit == initialSync \/ failCount >= MaxSyncFailures

\* os.Exit(code), or the death of the process by a signal.
Exit(code) ==
  /\ pc' = "exited"
  /\ exitCode' = code

\* The sync() that has just returned swapped the link to a new worktree.
Published == link # None /\ link # linkAtCall

\* main goes round its loop to the next sync(); q: the sync() just looked at
\* returned nil having published, and the remote did not change while it ran.
Continue(q) ==
  /\ pc' = "sync"
  /\ err' = "none"
  /\ outcome' = "none"
  /\ linkAtCall' = None
  /\ mutated' = FALSE
  /\ fault' = FALSE
  /\ quiet' = q
  /\ UNCHANGED exitCode

\* main, sync() returned an error: exit, or count the failure and retry.
MainOnError ==
  /\ pc = "ret"
  /\ err # "nil"
  /\ IF ShouldExit
     THEN Exit(1) /\ UNCHANGED <<failCount, history>>
     ELSE failCount' = failCount + 1 /\ Continue(FALSE)
  /\ UNCHANGED <<config, remote, disk, initialSync, locals, published,
                 remoteChanged, allOk>>

\* RevIsHash without the prefix test: every rev that resolves is a hash.
RevIsHashResolved(rev) == RevList(rev) # None

\* RevIsHash comparing for equality instead of a prefix.
RevIsHashExact(rev) == HashStr(RevList(rev)) = rev

\* revIsHash(rev): strings.HasPrefix(output, rev) of hashForRev's output.
RevIsHash(rev) == HasPrefix(HashStr(RevList(rev)), rev)

\* MainOnSuccess that does not clear initialSync after the check.
MainOnSuccessFlagKept ==
  /\ pc = "ret"
  /\ err = "nil"
  /\ IF initialSync
     THEN \E ok \in BOOLEAN :
            IF ~ok \/ RevList(Rev) = None
            THEN Exit(1) /\ UNCHANGED <<initialSync, failCount, history>>
            ELSE IF RevIsHash(Rev)
            THEN /\ pc' = "parked"
                 /\ UNCHANGED <<initialSync, failCount, exitCode, history>>
            ELSE IF OneTime
            THEN Exit(0) /\ UNCHANGED <<initialSync, failCount, history>>
            ELSE /\ failCount' = 0
                 /\ Continue(Published /\ ~remoteChanged)
                 /\ UNCHANGED initialSync
     ELSE /\ failCount' = 0
          /\ Continue(Published /\ ~remoteChanged)
          /\ UNCHANGED initialSync
  /\ UNCHANGED <<config, remote, disk, locals, published, remoteChanged,
                 allOk>>

\* main, sync() returned nil.  After the first sync: revIsHash, whose error
\* exits, whose true parks the process in sleepForever; then OneTime exits.
\* Otherwise the failure count is reset and the loop goes on.
MainOnSuccess ==
  /\ pc = "ret"
  /\ err = "nil"
  /\ IF initialSync
     THEN \E ok \in BOOLEAN :
            IF ~ok \/ RevList(Rev) = None
            THEN Exit(1) /\ UNCHANGED <<initialSync, failCount, history>>
            ELSE IF RevIsHash(Rev)
            THEN /\ pc' = "parked"
                 /\ UNCHANGED <<initialSync, failCount, exitCode, history>>
            ELSE IF OneTime
            THEN Exit(0) /\ UNCHANGED <<initialSync, failCount, history>>
            ELSE /\ initialSync' = FALSE
                 /\ failCount' = 0
                 /\ Continue(Published /\ ~remoteChanged)
     ELSE /\ failCount' = 0
          /\ Continue(Published /\ ~remoteChanged)
          /\ UNCHANGED initialSync
  /\ UNCHANGED <<config, remote, disk, locals, published, remoteChanged,
                 allOk>>

\* sleepForever: a signal arrives, os.Exit(0).
Signal ==
  /\ pc = "parked"
  /\ Exit(0)
  /\ UNCHANGED <<config, remote, disk, initialSync, failCount, locals,
                 history, published, remoteChanged, allOk>>

\* ------------------------------------------------------------- environment
\* The process is killed, wherever it is; a build under way stays as it is.
Kill ==
  /\ pc # "exited"
  /\ Exit(137)
  /\ hash' = Empty
  /\ local' = Empty
  /\ currentDir' = None
  /\ wt' = (IF pc \in {"gitdir", "reset", "chmod"} THEN Abandoned ELSE wt)
  /\ err' = "none"
  /\ outcome' = "none"
  /\ linkAtCall' = None
  /\ mutated' = FALSE
  /\ fault' = FALSE
  /\ quiet' = FALSE
  /\ remoteChanged' = FALSE
  /\ allOk' = (allOk /\ pc \in {"sync", "ret", "parked"})
  /\ UNCHANGED <<config, remote, repo, link, tmpLink, initialSync, failCount,
                 published>>

\* A new process is started over the same Root with the same options.
Restart ==
  /\ pc = "exited"
  /\ pc' = "sync"
  /\ initialSync' = TRUE
  /\ failCount' = 0
  /\ exitCode' = None
  /\ err' = "none"
  /\ outcome' = "none"
  /\ linkAtCall' = None
  /\ mutated' = FALSE
  /\ fault' = FALSE
  /\ remoteChanged' = FALSE
  /\ quiet' = FALSE
  /\ UNCHANGED <<config, remote, disk, locals, published, allOk>>

\* The remote branch gets a new commit.
RemoteAdvance ==
  /\ remoteHead < MaxCommits
  /\ remoteHead' = remoteHead + 1
  /\ remoteChanged' = TRUE
  /\ quiet' = FALSE
  /\ UNCHANGED <<config, remoteTag, disk, pc, driver, locals, err, outcome,
                 published, linkAtCall, mutated, fault, allOk>>

\* The remote's tag is moved to the branch head.
RemoteTagMove ==
  /\ Rev = TagStr
  /\ remoteTag # Empty
  /\ remoteTag # remoteHead
  /\ remoteTag' = remoteHead
  /\ remoteChanged' = TRUE
  /\ quiet' = FALSE
  /\ UNCHANGED <<config, remoteHead, disk, pc, driver, locals, err, outcome,
                 published, linkAtCall, mutated, fault, allOk>>

Next ==
  \/ SyncStat
  \/ CloneRepo
  \/ HashForRev
  \/ GetRevsLocal
  \/ GetRevsRemote
  \/ Fetch
  \/ WorktreeAdd
  \/ GitDirRewrite
  \/ ResetHard
  \/ ChmodTree
  \/ EvalSymlinks
  \/ LnTmpLink
  \/ MvTmpLink
  \/ RemoveOld
  \/ Prune
  \/ MainOnError
  \/ MainOnSuccess
  \/ Signal
  \/ Kill
  \/ Restart
  \/ RemoteAdvance
  \/ RemoteTagMove

Spec == Init /\ [][Next]_vars

\* ------------------------------------------------- revIsHash, on its own
\* The revs revIsHash is tried on: the Rev values of Init, the full hash and
\* the abbreviation of a later commit, and strings that name nothing.
RevInputs ==
  RevSpecs \cup {HashStr(2), <<"b">>, <<"a", "b">>, <<"a", "a", "a">>, <<"x">>}

\* Any state of the clone under Root, or no clone, and a process about to
\* call revIsHash(Rev).
InitRevIsHash ==
  /\ Rev \in RevInputs
  /\ MaxSyncFailures = 0
  /\ OneTime = FALSE
  /\ Chmod = 0
  /\ remoteHead = MaxCommits
  /\ remoteTag = Empty
  /\ cloned \in BOOLEAN
  /\ originBranch \in (IF cloned THEN Commits ELSE {Empty})
  /\ localBranch \in (IF cloned THEN 1..originBranch ELSE {Empty})
  /\ localTag \in (IF cloned THEN 0..originBranch ELSE {Empty})
  /\ wt = [d \in DirKeys |-> "absent"]
  /\ link = None
  /\ tmpLink = None
  /\ pc = "revIsHash"
  /\ initialSync = TRUE
  /\ failCount = 0
  /\ exitCode = None
  /\ hash = Empty
  /\ local = Empty
  /\ currentDir = None
  /\ err = "none"
  /\ outcome = "none"
  /\ published = FALSE
  /\ linkAtCall = None
  /\ mutated = FALSE
  /\ fault = FALSE
  /\ remoteChanged = FALSE
  /\ quiet = FALSE
  /\ allOk = TRUE

\* revIsHash(Rev) returns (false, err) when hashForRev fails, and
\* (strings.HasPrefix(output, rev), nil) otherwise; outcome is the boolean.
RevIsHashCall ==
  /\ pc = "revIsHash"
  /\ pc' = "ret"
  /\ \E ok \in BOOLEAN : fault' = ~ok /\
       IF ok /\ RevList(Rev) # None
       THEN /\ err' = "nil"
            /\ outcome' = (IF RevIsHash(Rev) THEN "true" ELSE "false")
       ELSE /\ err' = "hashForRev"
            /\ outcome' = "false"
  /\ UNCHANGED <<config, remote, disk, driver, locals, published, linkAtCall,
                 mutated, remoteChanged, quiet, allOk>>

NextRevIsHash == RevIsHashCall

SpecRevIsHash == InitRevIsHash /\ [][NextRevIsHash]_vars

\* --------------------------------------------- updateSymlink, on its own
\* Any Root with a clone, a link that is absent or references a fully built
\* worktree, any leftover tmp-link and any other rev-<hash> directories, and
\* a process about to call updateSymlink(Root, Dest, Root/rev-<hash>) for any
\* fully built worktree, the one the link references included.
InitUpdateSymlink ==
  /\ Rev = HEADStr
  /\ MaxSyncFailures = 0
  /\ OneTime = FALSE
  /\ Chmod \in ChmodValues
  /\ remoteHead = MaxCommits
  /\ remoteTag = Empty
  /\ cloned = TRUE
  /\ localBranch = 1
  /\ originBranch = MaxCommits
  /\ localTag = Empty
  /\ wt \in [DirKeys -> Stages]
  /\ wt[Empty] \in {"absent", "partial"}
  /\ link \in {None} \cup {d \in Commits : FullyBuilt(d)}
  /\ tmpLink \in {None} \cup Commits
  /\ pc = "eval"
  /\ initialSync \in BOOLEAN
  /\ failCount = 0
  /\ exitCode = None
  /\ hash \in {d \in Commits : FullyBuilt(d)}
  /\ local = Empty
  /\ currentDir = None
  /\ err = "running"
  /\ outcome = "update required"
  /\ published = (link # None)
  /\ linkAtCall = link
  /\ mutated = TRUE
  /\ fault = FALSE
  /\ remoteChanged = FALSE
  /\ quiet = FALSE
  /\ allOk = FALSE

NextUpdateSymlink ==
  \/ EvalSymlinks
  \/ LnTmpLink
  \/ MvTmpLink
  \/ RemoveOld
  \/ Prune

SpecUpdateSymlink == InitUpdateSymlink /\ [][NextUpdateSymlink]_vars

\* ================================================================ claims

\* C1: in every state after the first successful publish, whatever step a
\* later sync cycle is at and wherever the process was killed, the link
\* Root/Dest exists and resolves to a directory that exists and is fully
\* built.
C1_PointerAlwaysValid == published => (link # None /\ FullyBuilt(link))

\* C1, its case: a later cycle has just renamed tmp-link onto the link and
\* the previous worktree is still on disk.
C1_Witness ==
  /\ published
  /\ pc = "rm"
  /\ link = hash
  /\ currentDir # None
  /\ currentDir # link
  /\ Exists(currentDir)

\* C2: a sync() that follows a successful sync cycle (one that published a
\* worktree and returned nil), with no change of the remote since and no
\* failure of its environment, returns nil having logged "no update
\* required" and leaves the disk as it was.
C2_Idempotent ==
  (pc = "ret" /\ quiet /\ ~fault) =>
    (err = "nil" /\ outcome = "no update required" /\ ~mutated)

\* C3: the directory the link referenced when sync() was called changes only
\* in the cleanup, when the link already references the new worktree; and a
\* cleanup that fails returns with the link on the new worktree.
C3_RetirementOrdering ==
  [][/\ (linkAtCall # None /\ wt'[linkAtCall] # wt[linkAtCall]) =>
          (pc = "rm" /\ link = hash /\ link # linkAtCall /\ tmpLink = None)
     /\ (pc \in {"rm", "prune"} /\ pc' = "ret" /\ err' # "nil") =>
          (link' = link /\ link' = hash /\ link' # linkAtCall
             /\ wt'[link'] = wt[link] /\ FullyBuilt(link))]_vars

\* C3, its case: the removal failed after the swap; the old directory is
\* still there and the link references the new one.
C3_Witness ==
  /\ pc = "ret"
  /\ err = "rm"
  /\ linkAtCall # None
  /\ link # linkAtCall
  /\ Exists(linkAtCall)

\* C4: when 'ln -snf' or 'mv -T' fails, updateSymlink returns an error, the
\* link references what it referenced before and no directory has changed.
C4_PublishFailureLeavesPrevious ==
  /\ []((pc = "ret" /\ err \in {"ln", "mv"}) =>
          (link = linkAtCall /\ (linkAtCall # None => FullyBuilt(linkAtCall))))
  /\ [][(pc \in {"ln", "mv"} /\ fault') =>
          (pc' = "ret" /\ err' = pc /\ link' = link /\ wt' = wt)]_vars

\* C4, its case: the rename failed while a previous worktree was published.
C4_Witness ==
  /\ pc = "ret"
  /\ err = "mv"
  /\ linkAtCall # None
  /\ link = linkAtCall
  /\ tmpLink # None

\* C5, as claimed: whenever sync() returns an error and the link existed
\* when it was called, the link references the same worktree as at the call
\* and that directory is still there.
C5_LastKnownGood ==
  (pc = "ret" /\ err # "nil" /\ linkAtCall # None) =>
    (link = linkAtCall /\ Exists(linkAtCall))

\* C5, amended: that holds for an error of every step up to and including
\* the rename; an error of the cleanup (os.RemoveAll, git worktree prune) is
\* returned with the link on the new, fully built worktree.
C5_LastKnownGoodUntilSwap ==
  (pc = "ret" /\ err # "nil" /\ linkAtCall # None) =>
    IF err \in {"rm", "prune"}
    THEN link # None /\ link # linkAtCall /\ FullyBuilt(link)
    ELSE link = linkAtCall /\ FullyBuilt(linkAtCall)

\* C5, its case: a build failed at the reset while a worktree was published.
C5_Witness ==
  /\ pc = "ret"
  /\ err = "reset"
  /\ linkAtCall # None
  /\ link = linkAtCall

\* C6, as claimed: a sync() that has swapped the link returns nil, whatever
\* happened to the cleanup after the swap.
C6_CleanupFailureSwallowed ==
  (pc = "ret" /\ linkAtCall # None /\ link # linkAtCall) => err = "nil"

\* C6, amended: a cleanup that fails after the swap makes sync() return the
\* error; main handles it like any other: it exits with status 1 on the
\* first sync or with the budget used up, and counts it otherwise.  The link
\* stays on the new worktree.
C6_CleanupFailureSurfaced ==
  /\ []((pc = "ret" /\ linkAtCall # None /\ link # linkAtCall /\ fault) =>
          err \in {"rm", "prune"})
  /\ [][(pc = "ret" /\ err \in {"rm", "prune"} /\ pc' # pc) =>
          /\ link' = link
          /\ \/ pc' = "exited" /\ exitCode' = 137
             \/ pc' = "exited" /\ exitCode' = 1
                  /\ (initialSync \/ failCount >= MaxSyncFailures)
             \/ pc' = "sync" /\ failCount' = failCount + 1
                  /\ ~initialSync /\ failCount < MaxSyncFailures]_vars

\* C6, its case: the process has exited with status 1 on a failed removal
\* that followed a swap.
C6_Witness ==
  /\ pc = "exited"
  /\ exitCode = 1
  /\ err = "rm"
  /\ linkAtCall # None
  /\ link # linkAtCall

\* C7: an error of sync() before any sync() of this process has succeeded
\* ends the process with a failure status, with no retry, whatever
\* MaxSyncFailures is.
C7_FirstSyncMustSucceed ==
  [][(pc = "ret" /\ err # "nil" /\ initialSync /\ pc' # pc) =>
       (pc' = "exited" /\ exitCode' \in {1, 137} /\ failCount' = failCount)]_vars

\* C7, its case: the first sync failed under the largest budget and the
\* process has exited with status 1.
C7_Witness ==
  /\ pc = "exited"
  /\ exitCode = 1
  /\ initialSync
  /\ err \notin {"nil", "none"}
  /\ MaxSyncFailures = MaxBudget
  /\ MaxSyncFailures > 0

\* C8: failCount stays within 0..MaxSyncFailures; after the first success an
\* error is counted while failCount < MaxSyncFailures and exits with status
\* 1 otherwise, and a success sets failCount to 0.
C8_FailureBudget ==
  /\ [](0 <= failCount /\ failCount <= MaxSyncFailures)
  /\ [][(pc = "ret" /\ pc' # pc /\ ~(pc' = "exited" /\ exitCode' = 137)) =>
          /\ (~initialSync /\ err # "nil" /\ failCount < MaxSyncFailures) =>
               (pc' = "sync" /\ failCount' = failCount + 1)
          /\ (~initialSync /\ err # "nil" /\ failCount >= MaxSyncFailures) =>
               (pc' = "exited" /\ exitCode' = 1)
          /\ (err = "nil" /\ pc' = "sync") => failCount' = 0
          /\ (~initialSync /\ err = "nil") => pc' = "sync"]_vars

\* C8, its case: after the first success, MaxSyncFailures failures in a row
\* were counted and the next one has ended the process.
C8_Witness ==
  /\ pc = "exited"
  /\ exitCode = 1
  /\ ~initialSync
  /\ MaxSyncFailures = MaxBudget
  /\ failCount = MaxSyncFailures
  /\ failCount > 0

C10_OneTimeExits ==
  [][(OneTime /\ pc = "ret" /\ err = "nil" /\ pc' # pc) => pc' = "exited"]_vars

\* What an earlier failed or killed cycle left under Root, as seen when a
\* sync() that met no fault has returned: a tmp-link, or a rev-<hash>
\* directory that the link neither references nor referenced at the call.
\* A sync() that meets no fault leaves neither behind of its own making.
Leftovers ==
  \/ tmpLink # None
  \/ \E d \in Commits : Exists(d) /\ d # link /\ d # linkAtCall

\* C11: a sync() that runs over the leftovers of a failed or killed cycle,
\* finds the local copy (it got as far as comparing the local and the remote
\* hash) and meets no fault returns nil with the link on a fully built
\* worktree; the leftovers do not block it.
C11_ReentrantAfterFailure ==
  (pc = "ret" /\ ~fault /\ Leftovers /\ outcome # "none") =>
    (err = "nil" /\ link # None /\ FullyBuilt(link))

\* C12: sync() goes on to the clone exactly when Root holds no local copy of
\* the repository; when Root holds one it goes on to the comparison of the
\* local and the remote hash instead.
C12_CloneExactlyWhenNoLocalCopy ==
  [][(pc = "sync" /\ pc' \in {"clone", "getRevs"}) =>
       (pc' = "clone" <=> ~cloned)]_vars

\* C13: a remote hash that getRevs returned without an error is the hash of
\* a commit, never the empty string: when sync() goes on to build the remote
\* hash, that hash names a commit.
C13_RemoteHashIsAHash ==
  (pc = "fetch" /\ outcome = "update required") => hash \in Commits

\* rev is literally the beginning of the string h.
LiteralPrefix(rev, h) ==
  Len(rev) <= Len(h) /\ SubSeq(h, 1, Len(rev)) = rev

\* C14: revIsHash(rev) returns true exactly when the local resolution of rev
\* succeeds and the hash it gives begins with rev (the full hash of a commit
\* of the clone gives true; "HEAD" and a tag name give false); when the
\* resolution fails it returns the error, with no true verdict.
C14_RevIsHashPrefix ==
  pc = "ret" =>
    /\ outcome = "true" <=>
         (err = "nil" /\ \E i \in Commits :
                           RevList(Rev) = i /\ LiteralPrefix(Rev, HashStr(i)))
    /\ RevList(Rev) = None => err # "nil"
    /\ (err = "nil" /\ \E i \in Commits : i <= originBranch /\ Rev = HashStr(i))
         => outcome = "true"
    /\ (err = "nil" /\ Rev \in {HEADStr, TagStr}) => outcome = "false"

C14_Witness ==
  /\ pc = "ret"
  /\ err = "nil"
  /\ outcome = "true"
  /\ Rev = <<"b">>

\* C15: from an empty Root, while every sync() so far has returned nil, after
\* each sync() the link references a worktree and that worktree's directory
\* is the only rev-<hash> directory under Root: the directory published
\* before an update is gone.
C15_Reclamation ==
  (allOk /\ pc = "ret") =>
    /\ link # None
    /\ \A d \in DirKeys : Exists(d) <=> d = link

C15_Witness ==
  /\ allOk
  /\ pc = "ret"
  /\ linkAtCall # None
  /\ link # linkAtCall
  /\ ~Exists(linkAtCall)

\* What the remote resolves the tracking ref to: refs/heads/<Branch> when Rev
\* is "HEAD", the dereferenced tag otherwise.
TrackedRemoteHash == RemoteHashForRef(Rev = HEADStr)

\* C16: a sync() that found the local copy, compared the local hash and the
\* hash the remote has for the tracking ref and met no fault, over a Root
\* without leftovers and with the remote staying as it is, has built and
\* published the remote hash if the two differed, and has built nothing if
\* they were equal.
C16_SteadyStateDecision ==
  (/\ pc = "ret" /\ ~fault /\ ~remoteChanged
   /\ TrackedRemoteHash \in Commits /\ ~Leftovers) =>
    /\ outcome = "update required" =>
         /\ err = "nil"
         /\ link = TrackedRemoteHash
         /\ FullyBuilt(link)
    /\ outcome = "no update required" =>
         /\ err = "nil"
         /\ ~mutated
         /\ link = linkAtCall

\* The steps of addWorktreeAndSwap before updateSymlink, and those of
\* updateSymlink up to the rename.
BuildSteps == {"fetch", "wtadd", "gitdir", "reset", "chmod"}
PublishSteps == {"eval", "ln", "mv"}

\* C17: updateSymlink runs only on a worktree on which fetch, worktree add,
\* the gitdir rewrite, reset --hard and, when Chmod is set, chmod have
\* succeeded, one after the other in this order; a build step that fails
\* makes sync() return its error with the link and tmp-link as they were.
C17_BuildBeforePublish ==
  /\ [](pc \in PublishSteps => (hash \in Commits /\ FullyBuilt(hash)))
  /\ [][/\ pc' = "wtadd" => pc \in {"fetch", "wtadd"}
        /\ pc' = "gitdir" => pc \in {"wtadd", "gitdir"}
        /\ pc' = "reset" => pc \in {"gitdir", "reset"}
        /\ pc' = "chmod" => (pc \in {"reset", "chmod"} /\ Chmod # 0)
        /\ pc' = "eval" =>
             \/ pc \in {"chmod", "eval"}
             \/ pc = "reset" /\ Chmod = 0
        /\ (pc \in BuildSteps /\ pc' \notin BuildSteps \cup {"eval", "exited"}) =>
             /\ pc' = "ret"
             /\ err' = pc
             /\ link' = link
             /\ tmpLink' = tmpLink]_vars

C17_Witness ==
  /\ pc = "eval"
  /\ Chmod # 0
  /\ wt[hash] = "chmod"
  /\ link # None
  /\ link # hash

\* The steps of sync() that resolve the revision to build to a hash:
\* hashForRev after the clone, remoteHashForRef in getRevs.
ResolveSteps == {"hashForRev", "lsremote"}

\* C18: the fetch is done before the target revision is resolved to a hash:
\* the step that follows a resolution is never the fetch.
C18_FetchBeforeResolve ==
  [][(pc \in ResolveSteps /\ pc' \notin {pc, "ret", "exited"}) =>
       pc' # "fetch"]_vars

\* C18, amended: in a cycle that builds, the fetch comes after the target
\* revision has been resolved to a hash and before the worktree is built:
\* sync() enters the fetch from a resolution step only, with the hash that
\* step gave; no resolution step writes a worktree; and the worktree add is
\* entered from a fetch that succeeded only.
C18_FetchAfterResolveBeforeBuild ==
  [][/\ (pc # "fetch" /\ pc' = "fetch") =>
          /\ pc \in ResolveSteps
          /\ pc = "hashForRev" => hash' = RevList(Rev)
          /\ pc = "lsremote" => hash' = TrackedRemoteHash
     /\ pc \in ResolveSteps => wt' = wt
     /\ (pc # "wtadd" /\ pc' = "wtadd") =>
          /\ pc = "fetch"
          /\ ~fault'
          /\ originBranch' = remoteHead
          /\ hash' = hash]_vars

C18_Witness ==
  /\ pc = "gitdir"
  /\ outcome = "update required"
  /\ hash \in Commits
  /\ wt[hash] = "added"
  /\ originBranch = remoteHead

\* C19: the temporary link of a publish has a name of its own: when a
\* publish is about to create it, Root holds no temporary link of that name
\* left by an earlier publish.  (The code's name is always Root/tmp-link,
\* the entry tmpLink stands for.)
C19_UniqueTmpLink == pc = "ln" => tmpLink = None

\* C19, amended: every publish uses the one name tmp-link; a tmp-link left
\* by an earlier publish is replaced, so the link that is renamed onto Dest
\* references the worktree of this publish, and the rename leaves no
\* tmp-link.
C19_TmpLinkReplaced ==
  /\ [](pc = "mv" => tmpLink = hash)
  /\ [][/\ (pc = "ln" /\ pc' = "mv") => tmpLink' = hash
        /\ (pc = "mv" /\ link' # link) => (link' = hash /\ tmpLink' = None)
        /\ tmpLink' # tmpLink => pc \in {"ln", "mv"}]_vars

\* A publish is about to run ln over the tmp-link that an interrupted
\* publish of another worktree left.
C19_Witness ==
  /\ pc = "ln"
  /\ tmpLink # None
  /\ tmpLink # hash
  /\ FullyBuilt(hash)

\* C20: no step writes into the directory the link references, before or
\* after the step; and a fully built worktree directory changes in one way
\* only: the cleanup of updateSymlink removes it, whole or in part, when the
\* link references another worktree.
C20_WorktreeImmutable ==
  [][/\ link # None => wt'[link] = wt[link]
     /\ link' # None => wt'[link'] = wt[link']
     /\ \A d \in DirKeys :
          (FullyBuilt(d) /\ wt'[d] # wt[d]) =>
            /\ pc = "rm"
            /\ link # None
            /\ link # d
            /\ wt'[d] \in {"absent", "partial"}]_vars

\* A later cycle has asked 'git worktree add' for the directory the link
\* references, and has been refused.
C20_Witness ==
  /\ pc = "ret"
  /\ err = "wtadd"
  /\ ~fault
  /\ ~remoteChanged
  /\ ~Leftovers
  /\ link # None
  /\ link = linkAtCall
  /\ link = TrackedRemoteHash
  /\ FullyBuilt(link)

\* updateSymlink has returned after its rename succeeded.
Swapped == pc = "ret" /\ err \in {"nil", "rm", "prune"}

C22_ReadLinkFailure ==
  /\ [](pc \in {"rm", "prune"} => currentDir # None)
  /\ [][/\ (pc = "eval" /\ fault') =>
             (pc' = "ret" /\ err' = "eval" /\ UNCHANGED disk)
        /\ (pc = "eval" /\ pc' = "ret") => fault'
        /\ (pc = "eval" /\ link = None /\ pc' \notin {"eval", "exited"} /\ ~fault') =>
             (pc' = "ln" /\ currentDir' = None)
        /\ (pc = "mv" /\ currentDir = None /\ pc' \notin {"mv", "exited"}) =>
             /\ pc' = "ret"
             /\ wt' = wt
             /\ ~fault' => (err' = "nil" /\ link' = hash /\ FullyBuilt(link'))]_vars

\* updateSymlink has returned the error of reading the link, over a
\* published worktree.
C22_Witness ==
  /\ pc = "ret"
  /\ err = "eval"
  /\ fault
  /\ linkAtCall # None
  /\ link = linkAtCall
  /\ FullyBuilt(link)
  /\ \E d \in Commits : d # link /\ FullyBuilt(d)

\* C23: revIsHash is evaluated only after the first sync() of a process, when
\* that sync() returned nil.  If it fails the process exits with status 1
\* with the link and the worktrees as the first sync left them; with a
\* mutable verdict initialSync is cleared, and stays cleared while the
\* process lives; after any later sync() that returns nil main only goes
\* round its loop: it neither parks nor exits.
C23_CheckOnlyOnce ==
  /\ []((pc = "ret" /\ initialSync) => failCount = 0)
  /\ [][/\ (pc = "ret" /\ err = "nil" /\ exitCode' = 1) =>
             /\ initialSync
             /\ pc' = "exited"
             /\ link' = link
             /\ wt' = wt
        /\ (pc = "ret" /\ err = "nil" /\ initialSync /\ pc' = "sync") =>
             (~initialSync' /\ ~OneTime /\ ~LiteralPrefix(Rev, HashStr(RevList(Rev))))
        /\ (~initialSync /\ initialSync') => pc = "exited"
        /\ (pc = "ret" /\ err = "nil" /\ ~initialSync /\ pc' # pc) =>
             \/ pc' = "sync" /\ ~initialSync'
             \/ pc' = "exited" /\ exitCode' = 137
        /\ pc' = "parked" => (pc = "parked" \/ (pc = "ret" /\ initialSync))]_vars

\* A later sync() of the process has returned nil having published an
\* update; the check is not made again.
C23_Witness ==
  /\ pc = "ret"
  /\ err = "nil"
  /\ ~initialSync
  /\ linkAtCall # None
  /\ link # linkAtCall
  /\ FullyBuilt(link)

====
